---- MODULE Spec2Model ----
(***************************************************************************)
(* Task-dispatch gateway: the single-task route POST /api/agent/task and   *)
(* the batch route POST /api/mcp/coordinate, with the agent registry and   *)
(* the three agents they dispatch to.                                      *)
(*                                                                         *)
(* JavaScript values are encoded as follows.  The string Undefined stands  *)
(* for the value undefined.  A payload is a record whose field kind says   *)
(* whether it is undefined, a falsy primitive (0, "", false) or an object. *)
(* A handler result is a sequence of strings (field name, value, ...).     *)
(* An Authorization header is a sequence of one-character strings.         *)
(***************************************************************************)
EXTENDS Integers, Sequences, FiniteSets, TLC

\* ------------------------------------------------------------------ bounds
MaxHeaderLen == 3
MaxBatch == 2
NumReqs == 2

Reqs == 1..NumReqs

SeqsUpTo(S, n) == UNION {[1..k -> S] : k \in 0..n}

\* ------------------------------------------------------------- JS values
Undefined == "<undefined>"

\* `${v}` : template-literal conversion of a value to a string
Str(v) == IF v = Undefined THEN "undefined" ELSE v

PayloadUndefined ==
    [kind |-> "undefined", action |-> Undefined, data |-> Undefined,
     goal |-> Undefined, query |-> Undefined]
PayloadZero ==
    [kind |-> "zero", action |-> Undefined, data |-> Undefined,
     goal |-> Undefined, query |-> Undefined]
PayloadCreate ==
    [kind |-> "object", action |-> "create", data |-> "d1",
     goal |-> "g1", query |-> "q1"]
PayloadPurge ==
    [kind |-> "object", action |-> "purge", data |-> "d2",
     goal |-> Undefined, query |-> "q2"]

\* !payload
Falsy(payload) == payload.kind # "object"
\* reading a property of undefined (or destructuring it) throws a TypeError
PropertyReadThrows(payload) == payload.kind = "undefined"

\* ---------------------------------------------------------------- agents
Return(v) == [ok |-> TRUE, value |-> v]
Throw(e) == [ok |-> FALSE, value |-> <<e>>]

\* researchAgent.handleTask: net is the outcome of axios.get
researchAgent_handleTask(task, net) ==
    IF PropertyReadThrows(task.payload) THEN Throw("TypeError")
    ELSE IF net = "fail" THEN Throw("AxiosError")
    ELSE Return(<<"summary", "extract:" \o Str(task.payload.query)>>)

plannerAgent_handleTask(task) ==
    IF PropertyReadThrows(task.payload) THEN Throw("TypeError")
    ELSE Return(<<"steps", "Define the goal: " \o Str(task.payload.goal),
                  "Research requirements", "List resources",
                  "Create timeline", "Assign tasks">>)

executionAgent_handleTask(task) ==
    IF PropertyReadThrows(task.payload) THEN Throw("TypeError")
    ELSE LET action == task.payload.action
             data == task.payload.data
         IN  IF action = "create" THEN Return(<<"status", "created", "data", data>>)
             ELSE IF action = "read" THEN Return(<<"status", "read", "data", data>>)
             ELSE IF action = "update" THEN Return(<<"status", "updated", "data", data>>)
             ELSE IF action = "delete" THEN Return(<<"status", "deleted", "data", data>>)
             ELSE Return(<<"error", "Unknown action">>)

\* the registry object: own properties, each an agent (named by its name field)
agents ==
    [research |-> "ResearchAgent", planner |-> "PlannerAgent",
     execution |-> "ExecutionAgent"]

\* property names every plain object inherits from Object.prototype
ObjectPrototypeProps ==
    {"constructor", "__defineGetter__", "__defineSetter__", "hasOwnProperty",
     "__lookupGetter__", "__lookupSetter__", "isPrototypeOf",
     "propertyIsEnumerable", "toString", "valueOf", "__proto__",
     "toLocaleString"}

\* agents[taskType]: an own property yields the agent, an inherited one a
\* truthy value that has no handleTask, anything else undefined
Lookup(taskType) ==
    IF taskType \in DOMAIN agents
        THEN [kind |-> "agent", name |-> agents[taskType]]
    ELSE IF taskType \in ObjectPrototypeProps
        THEN [kind |-> "inherited", name |-> Undefined]
    ELSE [kind |-> "undefined", name |-> Undefined]

\* the outcomes handleTask of the named agent can have on task
HandlerOutcomes(name, task) ==
    IF name = "ResearchAgent"
        THEN {researchAgent_handleTask(task, net) : net \in {"ok", "fail"}}
    ELSE IF name = "PlannerAgent" THEN {plannerAgent_handleTask(task)}
    ELSE {executionAgent_handleTask(task)}

\* ------------------------------------------------------- identity (jwt)
HeaderChars == {" ", "B", "g", "h"}

NoHeader == [present |-> FALSE, chars |-> <<>>]
Header(cs) == [present |-> TRUE, chars |-> cs]
Headers == {NoHeader} \cup {Header(cs) : cs \in SeqsUpTo(HeaderChars, MaxHeaderLen)}

\* String.prototype.split(sep) for a one-character separator
RECURSIVE Split(_, _)
Split(s, sep) ==
    IF \A i \in 1..Len(s) : s[i] # sep THEN <<s>>
    ELSE LET i == CHOOSE k \in 1..Len(s) :
                      s[k] = sep /\ \A j \in 1..(k - 1) : s[j] # sep
         IN  <<SubSeq(s, 1, i - 1)>> \o Split(SubSeq(s, i + 1, Len(s)), sep)

\* req.headers.authorization?.split(' ')[1]
BearerToken(auth) ==
    IF ~auth.present THEN [defined |-> FALSE, chars |-> <<>>]
    ELSE LET parts == Split(auth.chars, " ")
         IN  IF Len(parts) >= 2 THEN [defined |-> TRUE, chars |-> parts[2]]
             ELSE [defined |-> FALSE, chars |-> <<>>]

\* !token
TokenFalsy(token) == ~token.defined \/ token.chars = <<>>

\* the tokens signToken has issued, with the id each was signed for
IssuedTokens == (<<"g">> :> "u1") @@ (<<"h">> :> "u2")

\* verifyToken(token): the decoded identity, or it throws
verifyToken(chars) ==
    IF chars \in DOMAIN IssuedTokens
        THEN [ok |-> TRUE, id |-> IssuedTokens[chars]]
        ELSE [ok |-> FALSE, id |-> Undefined]

\* --------------------------------------------------------- request inputs
TaskTypes == {Undefined, "", "research", "planner", "execution", "ghost", "constructor"}
BodyUserIds == {Undefined, "mallory"}
TaskPayloads == {PayloadUndefined, PayloadZero, PayloadCreate, PayloadPurge}

\* req.body of POST /api/agent/task
TaskBodies ==
    [taskType : TaskTypes, payload : TaskPayloads, userId : BodyUserIds]

\* the elements of req.body.tasks of POST /api/mcp/coordinate
NullTask ==
    [kind |-> "null", taskType |-> Undefined, payload |-> PayloadUndefined,
     userId |-> Undefined]
BatchTaskTypes == {"research", "planner", "execution", "ghost", "constructor"}
BatchPayloads == {PayloadUndefined, PayloadCreate, PayloadPurge}
BatchTasks ==
    {NullTask} \cup
    [kind : {"object"}, taskType : BatchTaskTypes, payload : BatchPayloads,
     userId : BodyUserIds]

NotAnArray == [isArray |-> FALSE, tasks |-> <<>>]
CoordinateBodies ==
    {NotAnArray} \cup
    {[isArray |-> TRUE, tasks |-> ts] : ts \in SeqsUpTo(BatchTasks, MaxBatch)}
CoordinateHeaders == {NoHeader, Header(<<"B", " ", "g">>)}

\* the batches sent concurrently
T(taskType, payload) ==
    [kind |-> "object", taskType |-> taskType, payload |-> payload,
     userId |-> Undefined]
ConcurrentBodies ==
    {[isArray |-> TRUE, tasks |-> ts] : ts \in
        {<<T("execution", PayloadCreate), T("research", PayloadPurge)>>,
         <<T("ghost", PayloadCreate), T("execution", PayloadPurge)>>,
         <<T("research", PayloadCreate)>>,
         <<T("planner", PayloadCreate), T("ghost", PayloadPurge),
           T("execution", PayloadCreate)>>}}

\* ------------------------------------------------------------------ state
NoTask == [userId |-> Undefined, taskType |-> Undefined, payload |-> PayloadUndefined]
\* the object a handler receives
TaskArg(userId, taskType, payload) ==
    [userId |-> userId, taskType |-> taskType, payload |-> payload]

NoRequest ==
    [path |-> "none", auth |-> NoHeader, taskType |-> Undefined,
     payload |-> PayloadUndefined, userId |-> Undefined,
     isArray |-> FALSE, tasks |-> <<>>]

NoResponse ==
    [sent |-> FALSE, status |-> 0, error |-> Undefined, agent |-> Undefined,
     result |-> <<>>, hasResults |-> FALSE, results |-> <<>>]
\* res.status(status).json({ error })
ErrorResponse(status, error) ==
    [NoResponse EXCEPT !.sent = TRUE, !.status = status, !.error = error]
\* res.json({ agent, result })
ResultResponse(agent, result) ==
    [NoResponse EXCEPT !.sent = TRUE, !.status = 200, !.agent = agent, !.result = result]
\* res.json({ results })
ResultsResponse(results) ==
    [NoResponse EXCEPT !.sent = TRUE, !.status = 200, !.hasResults = TRUE,
                       !.results = results]

\* one entry of the batch route's results array
UnknownOutcome(agent) == [agent |-> agent, error |-> "Unknown agent", result |-> <<>>]
ResultOutcome(agent, result) == [agent |-> agent, error |-> Undefined, result |-> result]

VARIABLES
    req,      \* req[r]: the request r carries
    pc,       \* pc[r]: "idle", "await" (suspended at await handleTask) or "done"
    idx,      \* idx[r]: index of the batch task whose handler is awaited
    results,  \* results[r]: the batch route's local results array
    res,      \* res[r]: the response the route has sent
    escaped,  \* escaped[r]: a rejection left the route callback uncaught
    calls     \* calls[r]: handleTask invocations and their settlements, in order

vars == <<req, pc, idx, results, res, escaped, calls>>

Init ==
    /\ req = [r \in Reqs |-> NoRequest]
    /\ pc = [r \in Reqs |-> "idle"]
    /\ idx = [r \in Reqs |-> 0]
    /\ results = [r \in Reqs |-> <<>>]
    /\ res = [r \in Reqs |-> NoResponse]
    /\ escaped = [r \in Reqs |-> FALSE]
    /\ calls = [r \in Reqs |-> <<>>]

Event(ev, i, handler, task, value) ==
    [ev |-> ev, idx |-> i, handler |-> handler, task |-> task, value |-> value]

\* ------------------------------------------ POST /api/agent/task (agent.ts)
TaskStep(kind, status, error, handler, task) ==
    [kind |-> kind, status |-> status, error |-> error, handler |-> handler,
     task |-> task]

\* !taskType
TaskTypeFalsy(taskType) == taskType = Undefined \/ taskType = ""

\* taskRouteSync with the token decoded and never verified
taskRouteSync_unverified(auth, body) ==
    LET token == BearerToken(auth)
        user == verifyToken(token.chars)
        agent == Lookup(body.taskType)
        task == TaskArg(user.id, body.taskType, body.payload)
    IN  IF TokenFalsy(token) THEN TaskStep("respond", 401, "No token", Undefined, NoTask)
        ELSE IF TaskTypeFalsy(body.taskType) \/ Falsy(body.payload)
            THEN TaskStep("respond", 400, "Missing fields", Undefined, NoTask)
        ELSE IF agent.kind = "undefined"
            THEN TaskStep("respond", 400, "Unknown agent", Undefined, NoTask)
        ELSE IF agent.kind = "inherited"
            THEN TaskStep("typeerror", 401, "Invalid token", Undefined, task)
        ELSE TaskStep("invoke", 0, Undefined, agent.name, task)

\* taskRouteSync with the check of taskType and payload left out
taskRouteSync_unvalidated(auth, body) ==
    LET token == BearerToken(auth)
        user == verifyToken(token.chars)
        agent == Lookup(body.taskType)
        task == TaskArg(user.id, body.taskType, body.payload)
    IN  IF TokenFalsy(token) THEN TaskStep("respond", 401, "No token", Undefined, NoTask)
        ELSE IF ~user.ok
            THEN TaskStep("respond", 401, "Invalid token", Undefined, NoTask)
        ELSE IF agent.kind = "undefined"
            THEN TaskStep("respond", 400, "Unknown agent", Undefined, NoTask)
        ELSE IF agent.kind = "inherited"
            THEN TaskStep("typeerror", 401, "Invalid token", Undefined, task)
        ELSE TaskStep("invoke", 0, Undefined, agent.name, task)

\* the route callback up to its first await: a response, or a handleTask call
\* ("typeerror": the looked-up value has no handleTask, the call throws inside
\* the try block and the catch answers)
taskRouteSync(auth, body) ==
    LET token == BearerToken(auth)
        user == verifyToken(token.chars)
        agent == Lookup(body.taskType)
        task == TaskArg(user.id, body.taskType, body.payload)
    IN  IF TokenFalsy(token) THEN TaskStep("respond", 401, "No token", Undefined, NoTask)
        ELSE IF ~user.ok
            THEN TaskStep("respond", 401, "Invalid token", Undefined, NoTask)
        ELSE IF TaskTypeFalsy(body.taskType) \/ Falsy(body.payload)
            THEN TaskStep("respond", 400, "Missing fields", Undefined, NoTask)
        ELSE IF agent.kind = "undefined"
            THEN TaskStep("respond", 400, "Unknown agent", Undefined, NoTask)
        ELSE IF agent.kind = "inherited"
            THEN TaskStep("typeerror", 401, "Invalid token", Undefined, task)
        ELSE TaskStep("invoke", 0, Undefined, agent.name, task)

\* the route callback after the await: the result is sent, a rejection is
\* caught by the same catch block as a verification failure
taskRouteSettle(taskType, outcome) ==
    IF outcome.ok THEN ResultResponse(taskType, outcome.value)
    ELSE ErrorResponse(401, "Invalid token")

TaskRequest(r) ==
    /\ pc[r] = "idle"
    /\ \E auth \in Headers, body \in TaskBodies :
         LET step == taskRouteSync(auth, body)
         IN  /\ req' = [req EXCEPT ![r] =
                    [NoRequest EXCEPT !.path = "task", !.auth = auth,
                                      !.taskType = body.taskType,
                                      !.payload = body.payload,
                                      !.userId = body.userId]]
             /\ pc' = [pc EXCEPT ![r] = IF step.kind = "invoke" THEN "await" ELSE "done"]
             /\ res' = [res EXCEPT ![r] =
                    IF step.kind = "invoke" THEN NoResponse
                    ELSE ErrorResponse(step.status, step.error)]
             /\ calls' = [calls EXCEPT ![r] =
                    IF step.kind = "respond" THEN @
                    ELSE Append(@, Event(step.kind, 0, step.handler, step.task, <<>>))]
    /\ UNCHANGED <<idx, results, escaped>>

\* the invocation request r is suspended on
Pending(r) == calls[r][Len(calls[r])]

TaskSettle(r) ==
    /\ pc[r] = "await"
    /\ req[r].path = "task"
    /\ \E outcome \in HandlerOutcomes(Pending(r).handler, Pending(r).task) :
         /\ calls' = [calls EXCEPT ![r] =
                Append(@, Event(IF outcome.ok THEN "return" ELSE "throw", 0,
                                Pending(r).handler, Pending(r).task, outcome.value))]
         /\ res' = [res EXCEPT ![r] = taskRouteSettle(req[r].taskType, outcome)]
    /\ pc' = [pc EXCEPT ![r] = "done"]
    /\ UNCHANGED <<req, idx, results, escaped>>

\* ------------------------------------- POST /api/mcp/coordinate (mcpServer)
LoopStep(kind, i, pushed, handler, task) ==
    [kind |-> kind, idx |-> i, pushed |-> pushed, handler |-> handler, task |-> task]

\* the for loop from task i up to its next await: "respond" when the loop
\* ends, "invoke" at a handleTask call, "typeerror" when the looked-up value
\* has no handleTask, "throw" when reading taskType of a null element throws;
\* pushed are the unknown-agent outcomes pushed on the way
RECURSIVE coordinateLoop(_, _, _)
coordinateLoop(tasks, i, pushed) ==
    IF i > Len(tasks) THEN LoopStep("respond", i, pushed, Undefined, NoTask)
    ELSE LET t == tasks[i]
             agent == Lookup(t.taskType)
             task == TaskArg(t.userId, t.taskType, t.payload)
         IN  IF t.kind = "null" THEN LoopStep("throw", i, pushed, Undefined, NoTask)
             ELSE IF agent.kind = "undefined"
                 THEN coordinateLoop(tasks, i + 1,
                                     Append(pushed, UnknownOutcome(t.taskType)))
             ELSE IF agent.kind = "inherited"
                 THEN LoopStep("typeerror", i, pushed, Undefined, task)
             ELSE LoopStep("invoke", i, pushed, agent.name, task)

\* Push with one results array shared by all requests
Push_shared(rs, r, outcomes) == [q \in Reqs |-> rs[q] \o outcomes]

\* results.push(...) on the results array of request r's callback
Push(rs, r, outcomes) == [rs EXCEPT ![r] = @ \o outcomes]

\* the effect of one loop step of request r, after the events evs and the
\* outcomes first were recorded
Advance(r, step, evs, first) ==
    /\ results' = Push(results, r, first \o step.pushed)
    /\ idx' = [idx EXCEPT ![r] = step.idx]
    /\ pc' = [pc EXCEPT ![r] = IF step.kind = "invoke" THEN "await" ELSE "done"]
    /\ calls' = [calls EXCEPT ![r] =
           IF step.kind \in {"invoke", "typeerror"}
               THEN @ \o evs \o <<Event(step.kind, step.idx, step.handler, step.task, <<>>)>>
               ELSE @ \o evs]
    /\ res' = [res EXCEPT ![r] =
           IF step.kind = "respond" THEN ResultsResponse(results'[r]) ELSE @]
    /\ escaped' = [escaped EXCEPT ![r] = step.kind \in {"typeerror", "throw"}]

CoordinateRequest(r, bodies) ==
    /\ pc[r] = "idle"
    /\ \E auth \in CoordinateHeaders, body \in bodies :
         /\ req' = [req EXCEPT ![r] =
                [NoRequest EXCEPT !.path = "coordinate", !.auth = auth,
                                  !.isArray = body.isArray, !.tasks = body.tasks]]
         /\ IF ~body.isArray
                THEN /\ res' = [res EXCEPT ![r] = ErrorResponse(400, "Tasks must be array")]
                     /\ pc' = [pc EXCEPT ![r] = "done"]
                     /\ UNCHANGED <<idx, results, escaped, calls>>
                ELSE Advance(r, coordinateLoop(body.tasks, 1, <<>>), <<>>, <<>>)

CoordinateSettle(r) ==
    /\ pc[r] = "await"
    /\ req[r].path = "coordinate"
    /\ UNCHANGED req
    /\ \E outcome \in HandlerOutcomes(Pending(r).handler, Pending(r).task) :
         IF outcome.ok
             THEN Advance(r, coordinateLoop(req[r].tasks, idx[r] + 1, <<>>),
                          <<Event("return", idx[r], Pending(r).handler,
                                  Pending(r).task, outcome.value)>>,
                          <<ResultOutcome(req[r].tasks[idx[r]].taskType, outcome.value)>>)
             ELSE /\ calls' = [calls EXCEPT ![r] =
                         Append(@, Event("throw", idx[r], Pending(r).handler,
                                         Pending(r).task, outcome.value))]
                  /\ escaped' = [escaped EXCEPT ![r] = TRUE]
                  /\ pc' = [pc EXCEPT ![r] = "done"]
                  /\ UNCHANGED <<idx, results, res>>

\* --------------------------------------------------------- specifications
\* one request, of either route, over the whole input space
Next ==
    \/ TaskRequest(1)
    \/ TaskSettle(1)
    \/ CoordinateRequest(1, CoordinateBodies)
    \/ CoordinateSettle(1)

Spec == Init /\ [][Next]_vars

\* NumReqs batch requests in flight at once
NextConcurrent ==
    \E r \in Reqs :
        \/ CoordinateRequest(r, ConcurrentBodies)
        \/ CoordinateSettle(r)

SpecConcurrent == Init /\ [][NextConcurrent]_vars

\* ----------------------------------------------------------------- claims
Registered == DOMAIN agents

Done(r) == pc[r] = "done"
OnTask(r) == req[r].path = "task"
OnCoordinate(r) == req[r].path = "coordinate" /\ req[r].isArray

\* the request's bearer credential is present and verifies
Verified(r) ==
    /\ ~TokenFalsy(BearerToken(req[r].auth))
    /\ verifyToken(BearerToken(req[r].auth).chars).ok
ResolvedId(r) == verifyToken(BearerToken(req[r].auth).chars).id

\* the request body passes validation
Validated(r) == ~TaskTypeFalsy(req[r].taskType) /\ ~Falsy(req[r].payload)

EventsOf(r, evs) == {k \in 1..Len(calls[r]) : calls[r][k].ev \in evs}
\* the handleTask calls request r made for batch index i
InvokesAt(r, i) == {k \in EventsOf(r, {"invoke"}) : calls[r][k].idx = i}

\* C1 (order preservation): a batch request whose tasks are a sequence of
\* length N is answered with exactly N outcomes, outcome i naming the
\* taskType of task i, whatever tasks are unknown or fail.
C1_OrderPreserved ==
    \A r \in Reqs :
        Done(r) /\ OnCoordinate(r) =>
            /\ res[r].sent /\ res[r].hasResults
            /\ Len(res[r].results) = Len(req[r].tasks)
            /\ \A i \in 1..Len(req[r].tasks) :
                   res[r].results[i].agent = req[r].tasks[i].taskType

\* the batch of request r holds exactly one task with no registered handler,
\* at index u, among tasks that name a registered agent and carry a payload
OneUnknownAt(r, u) ==
    /\ u \in 1..Len(req[r].tasks)
    /\ \A i \in 1..Len(req[r].tasks) :
           /\ req[r].tasks[i].kind = "object"
           /\ req[r].tasks[i].payload.kind = "object"
           /\ (req[r].tasks[i].taskType \notin Registered) <=> (i = u)

\* C2 (unknown agent isolation): with one unknown task among valid ones, the
\* result has the unknown-agent error at exactly that index and every other
\* index carries what its own handler returned.
C2_UnknownIsolated ==
    \A r \in Reqs : \A u \in 1..MaxBatch :
        Done(r) /\ OnCoordinate(r) /\ OneUnknownAt(r, u) =>
            /\ res[r].sent /\ res[r].hasResults
            /\ Len(res[r].results) = Len(req[r].tasks)
            /\ \A i \in 1..Len(req[r].tasks) :
                   IF i = u
                       THEN res[r].results[i] = UnknownOutcome(req[r].tasks[i].taskType)
                       ELSE /\ res[r].results[i].error = Undefined
                            /\ \E k \in EventsOf(r, {"return"}) :
                                   /\ calls[r][k].idx = i
                                   /\ calls[r][k].handler = agents[req[r].tasks[i].taskType]
                                   /\ res[r].results[i] =
                                          ResultOutcome(req[r].tasks[i].taskType,
                                                        calls[r][k].value)

\* C3 (handler failure is an outcome): when handleTask throws, on either
\* path, the request is answered with an error outcome naming the agent; the
\* failure does not escape, is not answered as an authentication failure,
\* and a batch still reports one outcome per task.
C3_HandlerErrorCaught ==
    \A r \in Reqs :
        Done(r) /\ EventsOf(r, {"throw"}) # {} =>
            /\ ~escaped[r]
            /\ res[r].sent
            /\ res[r].status # 401
            /\ OnTask(r) => res[r].agent = req[r].taskType /\ res[r].error # Undefined
            /\ OnCoordinate(r) =>
                   /\ res[r].hasResults
                   /\ Len(res[r].results) = Len(req[r].tasks)
                   /\ \A k \in EventsOf(r, {"throw"}) :
                          /\ res[r].results[calls[r][k].idx].agent = calls[r][k].task.taskType
                          /\ res[r].results[calls[r][k].idx].error # Undefined

\* C4 (auth gate): a single-task request whose bearer credential is missing
\* or fails verification invokes no handler and is answered 401.
C4_AuthGate ==
    \A r \in Reqs :
        OnTask(r) /\ ~Verified(r) =>
            /\ calls[r] = <<>>
            /\ Done(r)
            /\ res[r].sent /\ res[r].status = 401

\* a request with a well-formed body for a registered agent whose token was
\* not issued has been answered 401
C4_Witness ==
    \E r \in Reqs :
        /\ OnTask(r) /\ Done(r)
        /\ ~TokenFalsy(BearerToken(req[r].auth)) /\ ~Verified(r)
        /\ Validated(r) /\ req[r].taskType \in Registered
        /\ res[r] = ErrorResponse(401, "Invalid token")

\* C5 (unknown agent, single task): a validated task whose taskType has no
\* registered handler is answered with {agent: taskType, error: unknown
\* agent}, invokes no handler and does not throw.
C5_UnknownAgentOutcome ==
    \A r \in Reqs :
        Done(r) /\ OnTask(r) /\ Verified(r) /\ Validated(r)
                /\ req[r].taskType \notin Registered =>
            /\ res[r].sent
            /\ res[r].agent = req[r].taskType
            /\ res[r].error = "Unknown agent"
            /\ calls[r] = <<>>
            /\ ~escaped[r]

\* the body of request r with its taskType removed
WithoutTaskType(r) ==
    [taskType |-> Undefined, payload |-> req[r].payload, userId |-> req[r].userId]

\* C6 as stated (validator ordering): the reason reported for a body with a
\* taskType and no payload differs from the reason reported for the same
\* body with the taskType missing too.
C6_ReasonsDistinguishable ==
    \A r \in Reqs :
        Done(r) /\ OnTask(r) /\ Verified(r)
                /\ ~TaskTypeFalsy(req[r].taskType)
                /\ req[r].payload.kind = "undefined" =>
            res[r].error # taskRouteSync(req[r].auth, WithoutTaskType(r)).error

\* C6 as amended: a body missing both fields, and a body with a taskType and
\* no payload, are both rejected with status 400 and the one reason
\* 'Missing fields', and no handler is invoked.
C6_MissingFields ==
    \A r \in Reqs :
        Done(r) /\ OnTask(r) /\ Verified(r) /\ req[r].payload.kind = "undefined" =>
            /\ res[r] = ErrorResponse(400, "Missing fields")
            /\ calls[r] = <<>>

\* a verified request missing both taskType and payload has been rejected
C6_Witness ==
    \E r \in Reqs :
        /\ Done(r) /\ OnTask(r) /\ Verified(r)
        /\ req[r].taskType = Undefined /\ req[r].payload.kind = "undefined"
        /\ res[r].status = 400 /\ res[r].error = "Missing fields"

\* C7 (exactly one invocation): a single-task request that passes auth,
\* validation and lookup calls handleTask of its agent once and nothing else;
\* in a batch every task with a registered taskType causes exactly one call,
\* on its own agent, and every other task none.
C7_ExactlyOnce ==
    \A r \in Reqs :
        /\ Done(r) /\ OnTask(r) /\ Verified(r) /\ Validated(r)
                   /\ req[r].taskType \in Registered =>
               /\ Cardinality(EventsOf(r, {"invoke"})) = 1
               /\ \A k \in EventsOf(r, {"invoke"}) :
                      calls[r][k].handler = agents[req[r].taskType]
        /\ Done(r) /\ OnCoordinate(r) =>
               \A i \in 1..Len(req[r].tasks) :
                   IF req[r].tasks[i].taskType \in Registered
                       THEN /\ Cardinality(InvokesAt(r, i)) = 1
                            /\ \A k \in InvokesAt(r, i) :
                                   calls[r][k].handler = agents[req[r].tasks[i].taskType]
                       ELSE InvokesAt(r, i) = {}

\* handleTask calls of request r are made in input order, each after the
\* call before it has settled, and none is skipped
Sequential(r) ==
    \A k \in EventsOf(r, {"invoke"}) :
        /\ \A j \in EventsOf(r, {"invoke"}) :
               j < k =>
                   /\ calls[r][j].idx < calls[r][k].idx
                   /\ \E m \in EventsOf(r, {"return", "throw"}) :
                          j < m /\ m < k /\ calls[r][m].idx = calls[r][j].idx
        /\ \A i \in 1..(calls[r][k].idx - 1) :
               req[r].tasks[i].taskType \in Registered =>
                   \E j \in InvokesAt(r, i) : j < k

\* the results response is sent once every task has been processed
RespondsLast(r) ==
    res[r].sent /\ res[r].hasResults =>
        /\ Done(r)
        /\ Len(res[r].results) = Len(req[r].tasks)
        /\ \A i \in 1..Len(req[r].tasks) :
               req[r].tasks[i].taskType \in Registered =>
                   \E k \in EventsOf(r, {"return"}) : calls[r][k].idx = i

\* entry i of request r's results is the outcome of r's own task i
OwnOutcomes(r) ==
    /\ Len(results[r]) <= Len(req[r].tasks)
    /\ res[r].hasResults => res[r].results = results[r]
    /\ \A i \in 1..Len(results[r]) :
           LET t == req[r].tasks[i]
           IN  IF t.taskType \in Registered
                   THEN \E o \in HandlerOutcomes(agents[t.taskType],
                                                 TaskArg(t.userId, t.taskType, t.payload)) :
                            o.ok /\ results[r][i] = ResultOutcome(t.taskType, o.value)
                   ELSE results[r][i] = UnknownOutcome(t.taskType)

\* C8 (sequential batches, isolated requests): within a batch request tasks
\* are processed one after the other in input order and the response follows
\* the last; concurrent requests interleave, and each one's results hold
\* only the outcomes of its own tasks.
C8_SequentialIsolated ==
    \A r \in Reqs : Sequential(r) /\ RespondsLast(r) /\ OwnOutcomes(r)

\* two batch requests are suspended in handlers at once, each with outcomes
\* already collected
C8_Witness ==
    /\ pc[1] = "await" /\ pc[2] = "await"
    /\ results[1] # <<>> /\ results[2] # <<>>
    /\ results[1] # results[2]

\* C9 (identity binding): a userId a handler receives is the id resolved
\* from the verified bearer credential of the same request, never one taken
\* from the request body.
C9_IdentityFromCredential ==
    \A r \in Reqs : \A k \in EventsOf(r, {"invoke"}) :
        calls[r][k].task.userId # Undefined =>
            Verified(r) /\ calls[r][k].task.userId = ResolvedId(r)

\* C10 (registry lookup): only research, planner and execution are present;
\* any other taskType takes the unknown-agent branch and handleTask is never
\* called on what the lookup returned.
C10_OnlyRegisteredPresent ==
    \A r \in Reqs :
        /\ EventsOf(r, {"typeerror"}) = {}
        /\ \A k \in EventsOf(r, {"invoke"}) : calls[r][k].task.taskType \in Registered
        /\ Done(r) /\ OnTask(r) /\ Verified(r) /\ Validated(r)
                   /\ req[r].taskType \notin Registered =>
               res[r] = ErrorResponse(400, "Unknown agent")

====
